---- MODULE Spec2Model ----
(***************************************************************************)
(* State-machine model of the two address-issue services:                  *)
(*   - the Shopify -> ShipStation poller (shopify-address-poller.js,       *)
(*     stored as src/unnamed/part_000), and                                *)
(*   - the ShipStation tagger (src/address-issue-server.js).               *)
(* A behaviour runs one of the two; each has its own SQLite file.          *)
(*                                                                         *)
(* One pollOnce() invocation is a "pass".  pollOnce is an async function:  *)
(* it runs synchronously between awaits, and every await (a database call, *)
(* an HTTP call, the pacing timer) is a point where other callbacks of the *)
(* event loop run.  pass[k].pc names the await pass k is suspended on; an  *)
(* action is the completion of that await together with the synchronous    *)
(* code that follows it up to the next await.                              *)
(*                                                                         *)
(* Time is a discrete clock `now`; new Date() / Date.now() read it.        *)
(* The tagger model follows the same scheme, with scanAndTagAddressIssues  *)
(* as its pass; its definitions carry the prefix Tagger.                   *)
(***************************************************************************)
EXTENDS Integers, Sequences, FiniteSets, TLC

(***************************************************************************)
(* Bounds of the model                                                     *)
(***************************************************************************)
NumOrders == 2      \* orders placed in the shop
MaxTime   == 2      \* the clock stops here
MaxRuns   == 3      \* passes (pollOnce, scanAndTagAddressIssues) over all
                    \* process lifetimes
MaxBoots  == 2      \* process starts (a supervisor restarts an exited process)
MaxTimerBoots == 1  \* process starts whose timer passes are followed; a later
                    \* process is followed to the end of its first pass
PageSize  == 1      \* orders per page; stands for `first: 50` and PAGE_SIZE

PollTicks     == 1  \* POLL_INTERVAL_MS, in clock ticks
LookbackTicks == 2  \* LOOKBACK_MINUTES_ON_FIRST_RUN, in clock ticks

Orders == 1..NumOrders
Passes == 1..MaxRuns
None   == <<>>
Some(v) == <<v>>

WATERMARK_KEY == "last_shopify_poll_iso"

VARIABLES
  proc,       \* "init" | "first" | "running" | "exited" (process.exit(1)) |
              \* "stopped" (exit on a signal): where start() is;
              \* "off" when the behaviour runs the tagger
  boots,      \* process starts so far
  now,        \* the wall clock
  nextFire,   \* when the setInterval timer is next due
  runs,       \* pollOnce invocations so far; pass `runs` is the latest
  shop,       \* Shopify: the orders placed so far
  updatedAt,  \* Shopify: updatedAt of each order
  summary,    \* Shopify: shippingAddress.validationResultSummary of each order
  inSS,       \* ShipStation: whether an order with that number exists
  tagCalls,   \* ShipStation: POST /orders/addtag requests received per order
  state,      \* SQLite table `state`: key -> value
  processed,  \* SQLite table `processed`: rows in insertion order
  pass,       \* the pollOnce invocations: locals and pending await of each
  returned,   \* per order, whether a completed scan has returned the order as
              \* it is now (with its present updatedAt)
  taggerProc,       \* tagger: where its start() is; "off" when the poller runs
  taggerBoots,      \* tagger: process starts so far
  taggerRuns,       \* tagger: scanAndTagAddressIssues invocations so far
  orderStatus,      \* ShipStation: orderStatus of each order, None before the
                    \* order exists
  addressVerified,  \* ShipStation: shipTo.addressVerified of each order
  taggerTagCalls,   \* ShipStation: POST /orders/addtag requests of the tagger,
                    \* per orderId
  taggerProcessed,  \* tagger's SQLite table `processed`
  taggerPass,       \* the scanAndTagAddressIssues invocations
  env,        \* process.env: the names of the variables that are set
  tags,       \* ShipStation: the tags of the account, GET /accounts/listtags
  arg,        \* the argument a pure function is applied to, when a behaviour
              \* applies one instead of running a service
  result      \* None, then Some(value the function returned)

pollerVars == <<proc, boots, now, nextFire, runs, shop, updatedAt, summary,
                inSS, tagCalls, state, processed, pass, returned>>

taggerVars == <<taggerProc, taggerBoots, taggerRuns, orderStatus,
                addressVerified, taggerTagCalls, taggerProcessed, taggerPass>>

hostVars == <<env, tags>>

probeVars == <<arg, result>>

vars == <<pollerVars, taggerVars, hostVars, probeVars>>

(***************************************************************************)
(* SQLite: tables `state` and `processed`                                  *)
(***************************************************************************)
\* getState: SELECT value FROM state WHERE key = ?  ->  row ? row.value : null
getState(key) == IF key \in DOMAIN state THEN Some(state[key]) ELSE None

\* setState: INSERT ... ON CONFLICT(key) DO UPDATE SET value = excluded.value
setState(key, value) ==
  [k \in (DOMAIN state) \cup {key} |-> IF k = key THEN value ELSE state[k]]

\* The same query with `AND status = 'tagged'`
wasTagged(gid) ==
  \E i \in DOMAIN processed :
    processed[i].shopify_order_gid = gid /\ processed[i].status = "tagged"

\* wasProcessed: SELECT 1 FROM processed WHERE shopify_order_gid = ? LIMIT 1
wasProcessed(gid) ==
  \E i \in DOMAIN processed : processed[i].shopify_order_gid = gid

\* A plain INSERT, without the ON CONFLICT clause and without the UNIQUE
\* constraint behind it.
markProcessedInsertOnly(row) == Append(processed, row)

\* markProcessed: INSERT ... ON CONFLICT(shopify_order_gid) DO UPDATE SET
\*   name, shipstation_order_id, status, note = excluded.*
markProcessed(row) ==
  IF wasProcessed(row.shopify_order_gid)
  THEN [i \in DOMAIN processed |->
          IF processed[i].shopify_order_gid = row.shopify_order_gid
          THEN row ELSE processed[i]]
  ELSE Append(processed, row)

\* The row markProcessed binds; shipstationOrderId || null
Row(gid, name, ssid, status, note) ==
  [shopify_order_gid |-> gid, shopify_order_name |-> name,
   shipstation_order_id |-> IF ssid # None /\ ssid[1] = 0 THEN None ELSE ssid,
   status |-> status, note |-> note]

(***************************************************************************)
(* JavaScript strings are sequences of one-character strings; a nullable   *)
(* string is None or Some(string).                                         *)
(***************************************************************************)
S_ERROR     == <<"E", "R", "R", "O", "R">>
S_WARNING   == <<"W", "A", "R", "N", "I", "N", "G">>
S_NO_ISSUES == <<"N", "O", "_", "I", "S", "S", "U", "E", "S">>

\* White space and line terminators, the characters String.prototype.trim
\* strips (of which the model writes these)
WhiteSpace == {" ", "\t", "\n", "\r", "\f"}

RECURSIVE trimStart(_)
trimStart(s) ==
  IF s # <<>> /\ Head(s) \in WhiteSpace THEN trimStart(Tail(s)) ELSE s

RECURSIVE trimEnd(_)
trimEnd(s) ==
  IF s # <<>> /\ s[Len(s)] \in WhiteSpace
  THEN trimEnd(SubSeq(s, 1, Len(s) - 1)) ELSE s

\* String.prototype.trim
trim(s) == trimEnd(trimStart(s))

UpperChar(c) ==
  CASE c = "a" -> "A" [] c = "d" -> "D" [] c = "e" -> "E" [] c = "g" -> "G"
    [] c = "i" -> "I" [] c = "l" -> "L" [] c = "n" -> "N" [] c = "o" -> "O"
    [] c = "r" -> "R" [] c = "s" -> "S" [] c = "u" -> "U" [] c = "v" -> "V"
    [] c = "w" -> "W" [] OTHER -> c

\* String.prototype.toUpperCase
toUpperCase(s) == [i \in DOMAIN s |-> UpperChar(s[i])]

LowerChar(c) ==
  CASE c = "A" -> "a" [] c = "D" -> "d" [] c = "E" -> "e" [] c = "F" -> "f"
    [] c = "G" -> "g" [] c = "I" -> "i" [] c = "L" -> "l" [] c = "N" -> "n"
    [] c = "O" -> "o" [] c = "R" -> "r" [] c = "S" -> "s" [] c = "T" -> "t"
    [] c = "U" -> "u" [] c = "V" -> "v" [] c = "W" -> "w" [] c = "C" -> "c"
    [] c = "Y" -> "y" [] OTHER -> c

\* String.prototype.toLowerCase
toLowerCase(s) == [i \in DOMAIN s |-> LowerChar(s[i])]

\* String.prototype.replace(pattern, "") with a one-character string pattern:
\* only the first occurrence goes
RECURSIVE removeFirst(_, _)
removeFirst(s, c) ==
  IF s = <<>> THEN <<>>
  ELSE IF Head(s) = c THEN Tail(s)
  ELSE <<Head(s)>> \o removeFirst(Tail(s), c)

(***************************************************************************)
(* Business logic: pure functions                                          *)
(***************************************************************************)
\* String(s ?? "") without the trim
normalizeNoTrim(s) == IF s = None THEN <<>> ELSE s[1]

\* normalize: String(s ?? "").trim()
normalize(s) == trim(IF s = None THEN <<>> ELSE s[1])

\* order?.shippingAddress?.validationResultSummary: undefined (None) when the
\* order has no shippingAddress or the address no such field
validationResultSummary(order) ==
  IF order.shippingAddress = None THEN None
  ELSE order.shippingAddress[1].validationResultSummary

\* isShopifyAddressIssue: v === "WARNING" || v === "ERROR"
isShopifyAddressIssue(order) ==
  LET v == toUpperCase(normalize(validationResultSummary(order)))
  IN  v = S_WARNING \/ v = S_ERROR

\* orderNumberFromShopifyName: String(name || "").replace("#", "").trim()
orderNumberFromShopifyName(name) ==
  trim(removeFirst(IF name = None THEN <<>> ELSE name[1], "#"))

\* The lookback taken from the epoch instead of from Date.now()
isoMinutesAgoFromEpoch(minutes) == 0 - minutes

\* isoMinutesAgo: new Date(Date.now() - minutes * 60 * 1000)
isoMinutesAgo(minutes) == now - minutes

(***************************************************************************)
(* Shopify: the orders query                                               *)
(***************************************************************************)
Digit(o) == <<"1", "2", "3", "4", "5", "6", "7", "8", "9">>[o]

\* order.name of order o: "#1001", "#1002", ...
OrderName(o) == Some(<<"#", "1", "0", "0", Digit(o)>>)

\* The node the query returns for order o, as it is now
Node(o) ==
  [id |-> o, name |-> OrderName(o), updatedAt |-> updatedAt[o],
   shippingAddress |-> Some([validationResultSummary |-> summary[o]])]

\* sortKey: UPDATED_AT, reverse: false; ties are broken by id.  A cursor is the
\* sort position of the edge it was issued for.
Cursor(o) == <<updatedAt[o], o>>
Before(a, b) == a[1] < b[1] \/ (a[1] = b[1] /\ a[2] < b[2])

\* query "updated_at:>=sinceISO", after: the cursor of the previous page
Matching(sinceISO, after) ==
  {o \in shop   : /\ updatedAt[o] >= sinceISO
                  /\ (after = None \/ Before(after[1], Cursor(o)))}

RECURSIVE Sorted(_)
Sorted(S) ==
  IF S = {} THEN <<>>
  ELSE LET first == CHOOSE o \in S :
                      \A p \in S \ {o} : Before(Cursor(o), Cursor(p))
       IN  <<first>> \o Sorted(S \ {first})

\* One response of POST /graphql.json with a given number of edges per page
Page(sinceISO, after, n) ==
  LET all   == Sorted(Matching(sinceISO, after))
      ids   == SubSeq(all, 1, IF Len(all) < n THEN Len(all) ELSE n)
  IN  [edges       |-> [i \in DOMAIN ids |-> Node(ids[i])],
       hasNextPage |-> Len(all) > n,
       endCursor   |-> IF ids = <<>> THEN None ELSE Some(Cursor(ids[Len(ids)]))]

(***************************************************************************)
(* ShipStation                                                             *)
(***************************************************************************)
\* orderId of the ShipStation order that carries order o's number
OrderId(o) == 100 + o

\* GET /orders?orderNumber=...: res.data.orders
OrdersByNumber(orderNumber) ==
  {o \in Orders : inSS[o] /\ orderNumberFromShopifyName(OrderName(o)) = orderNumber}

(***************************************************************************)
(* pollOnce: the locals of one invocation                                  *)
(***************************************************************************)
\* let inspected = 0, addressIssues = 0, ...
NoCounts ==
  [inspected |-> 0, addressIssues |-> 0, newlyTagged |-> 0,
   notInShipStation |-> 0, skippedAlready |-> 0, errors |-> 0]

IdlePass ==
  [pc       |-> "idle",  \* the await the invocation is suspended on
   started  |-> None,    \* the time logged as "Poll started"
   since    |-> None,    \* let since
   after    |-> None,    \* fetch...: let after
   resp     |-> None,    \* fetch...: the response of the pending POST, in flight
   results  |-> <<>>,    \* fetch...: const results, then pollOnce's orders
   idx      |-> 0,       \* position of `o` in orders
   newSince |-> None,    \* const newSince
   ssOrder  |-> None,    \* const ssOrder
   lookupError |-> FALSE,  \* findShipStationOrder caught an error for `o`
   msg      |-> "",      \* catch (e): const msg
   counts   |-> NoCounts,  \* the six counters of the poll summary
   cause    |-> ""]      \* for an invocation rejected by the scan or by the
                         \* watermark write, the await that threw

Active(k) ==
  pass[k].pc \notin {"idle", "resolved", "rejected", "killed"}

\* The order the for loop is at
Cur(k) == pass[k].results[pass[k].idx]

\* The loop without `if (!isShopifyAddressIssue(o)) continue`
NextOrder(orders, i) == i

\* for (const o of orders): from position i on, orders that are no address
\* issue are passed over synchronously (`continue`); the loop stops at the
\* await of wasProcessed for the first address issue, or falls out to the
\* await of setState.
RECURSIVE NextIssue(_, _)
NextIssue(orders, i) ==
  IF i > Len(orders) \/ isShopifyAddressIssue(orders[i]) THEN i
  ELSE NextIssue(orders, i + 1)

\* The loop goes from position i to the next await: every order it comes to
\* is counted as inspected, the address issue it stops at as an address issue
Advance(r, i) ==
  LET j    == NextIssue(r.results, i)
      n    == Len(r.results)
      seen == IF j > n THEN n - i + 1 ELSE j - i + 1
  IN  [r EXCEPT !.idx = j, !.ssOrder = None, !.lookupError = FALSE, !.msg = "",
                !.counts.inspected = @ + seen,
                !.counts.addressIssues = IF j > n THEN @ ELSE @ + 1,
                !.pc = IF j > n THEN "setState" ELSE "wasProcessed"]

\* The promise of pollOnce settles: the locals are gone.  Of an invocation
\* rejected by the scan or by the watermark write the model remembers where it
\* threw and the since bound it had, and of the latter the orders it went
\* through.
Settled(k, how, at) ==
  LET kept == how = "rejected" /\ at \in {"post", "setState"}
  IN  [IdlePass EXCEPT !.pc = how,
                       !.cause = IF kept THEN at ELSE "",
                       !.since = IF kept THEN pass[k].since ELSE None,
                       !.results = IF kept /\ at = "setState"
                                   THEN pass[k].results ELSE <<>>]

\* start(): `await pollOnce(tagId)` of the first pass sits inside start(), whose
\* rejection ends in process.exit(1); a pass started by the timer has its own
\* .catch, which logs.
Rejects(k) ==
  /\ pass' = [pass EXCEPT ![k] = Settled(k, "rejected", pass[k].pc)]
  /\ proc' = IF proc = "first" THEN "exited" ELSE proc
  /\ UNCHANGED nextFire

(***************************************************************************)
(* The tagger (address-issue-server.js): its table `processed`             *)
(***************************************************************************)
\* wasProcessed: SELECT 1 FROM processed WHERE shipstation_order_id = ? LIMIT 1
TaggerWasProcessed(orderId) ==
  \E i \in DOMAIN taggerProcessed :
    taggerProcessed[i].shipstation_order_id = orderId

\* markProcessed: INSERT ... ON CONFLICT(shipstation_order_id) DO UPDATE SET
\*   status, note = excluded.*
TaggerMarkProcessed(orderId, orderNumber, status, note) ==
  IF TaggerWasProcessed(orderId)
  THEN [i \in DOMAIN taggerProcessed |->
          IF taggerProcessed[i].shipstation_order_id = orderId
          THEN [taggerProcessed[i] EXCEPT !.status = status, !.note = note]
          ELSE taggerProcessed[i]]
  ELSE Append(taggerProcessed,
              [shipstation_order_id |-> orderId, order_number |-> orderNumber,
               status |-> status, note |-> note])

(***************************************************************************)
(* The tagger: business logic and the ShipStation order list               *)
(***************************************************************************)
ADDRESS_FAILED_VALUE ==
  <<"A", "d", "d", "r", "e", "s", "s", " ", "v", "a", "l", "i", "d", "a",
    "t", "i", "o", "n", " ", "f", "a", "i", "l", "e", "d">>

S_NOT_VALIDATED ==
  <<"A", "d", "d", "r", "e", "s", "s", " ", "n", "o", "t", " ", "y", "e",
    "t", " ", "v", "a", "l", "i", "d", "a", "t", "e", "d">>

S_WARNING_VALUE ==
  <<"A", "d", "d", "r", "e", "s", "s", " ", "v", "a", "l", "i", "d", "a",
    "t", "i", "o", "n", " ", "w", "a", "r", "n", "i", "n", "g">>

S_VALIDATED ==
  <<"A", "d", "d", "r", "e", "s", "s", " ", "v", "a", "l", "i", "d", "a",
    "t", "e", "d", " ", "s", "u", "c", "c", "e", "s", "s", "f", "u", "l",
    "l", "y">>

\* isAddressVerificationFailed:
\*   String(av || "").toLowerCase() === ADDRESS_FAILED_VALUE.toLowerCase()
isAddressVerificationFailed(order) ==
  LET av == IF order.shipTo = None THEN None
            ELSE order.shipTo[1].addressVerified
  IN  toLowerCase(IF av = None THEN <<>> ELSE av[1])
        = toLowerCase(ADDRESS_FAILED_VALUE)

ORDER_STATUSES == <<"awaiting_shipment", "on_hold">>

\* The order object ShipStation lists for order o
TaggerOrder(o) ==
  [orderId |-> OrderId(o),
   orderNumber |-> Some(orderNumberFromShopifyName(OrderName(o))),
   shipTo |-> Some([addressVerified |-> addressVerified[o]])]

\* sortBy: "ModifyDate", sortDir: "DESC"; orders come into ShipStation in the
\* order of their ids and every order lies inside the LOOKBACK_DAYS window
RECURSIVE Descending(_)
Descending(S) ==
  IF S = {} THEN <<>>
  ELSE LET last == CHOOSE o \in S : \A p \in S : p <= o
       IN  <<last>> \o Descending(S \ {last})

\* listOrders: GET /orders -> res.data, { orders, pages }
listOrders(status, page, n) ==
  LET all == Descending({o \in Orders : orderStatus[o] = Some(status)})
      lo  == (page - 1) * n + 1
      hi  == IF page * n < Len(all) THEN page * n ELSE Len(all)
      ids == IF lo > hi THEN <<>> ELSE SubSeq(all, lo, hi)
  IN  [orders |-> [i \in DOMAIN ids |-> TaggerOrder(ids[i])],
       pages  |-> (Len(all) + n - 1) \div n]

(***************************************************************************)
(* scanAndTagAddressIssues: the locals of one invocation                   *)
(***************************************************************************)
TaggerIdlePass ==
  [pc     |-> "idle",  \* the await the invocation is suspended on
   status |-> 0,       \* position of `status` in ORDER_STATUSES
   page   |-> 0,       \* let page
   orders |-> <<>>,    \* const orders
   pages  |-> 0,       \* const totalPages
   idx    |-> 0,       \* position of `order` in orders
   msg    |-> "",      \* catch (e): const msg
   cause  |-> ""]      \* for an invocation rejected by the scan, the await
                       \* that threw

TaggerActive(k) ==
  taggerPass[k].pc \notin {"idle", "resolved", "rejected", "killed"}

\* The order the inner for loop is at
TaggerCur(k) == taggerPass[k].orders[taggerPass[k].idx]

TaggerSettled(how, at) ==
  [TaggerIdlePass EXCEPT !.pc = how,
                         !.cause = IF how = "rejected" /\ at = "list"
                                   THEN at ELSE ""]

\* for (const order of orders): orders without an id and orders whose address
\* did not fail are passed over (`continue`)
RECURSIVE NextFailed(_, _)
NextFailed(orders, i) ==
  IF i > Len(orders)
       \/ (orders[i].orderId # 0 /\ isAddressVerificationFailed(orders[i]))
  THEN i
  ELSE NextFailed(orders, i + 1)

\* for (const status of ORDER_STATUSES): the next status, or the scan is over
TaggerNextStatus(r) ==
  IF r.status < Len(ORDER_STATUSES)
  THEN [r EXCEPT !.status = @ + 1, !.page = 1, !.orders = <<>>, !.pages = 0,
                 !.idx = 0, !.msg = "", !.pc = "list"]
  ELSE TaggerSettled("resolved", "")

\* From position i of the page on: the next failed order, or the next page
\* (page < totalPages), or the next status
TaggerAdvance(r, i) ==
  LET j == NextFailed(r.orders, i)
  IN  IF j <= Len(r.orders)
      THEN [r EXCEPT !.idx = j, !.msg = "", !.pc = "wasProcessed"]
      ELSE IF r.page >= r.pages
           THEN TaggerNextStatus(r)
           ELSE [r EXCEPT !.page = @ + 1, !.orders = <<>>, !.pages = 0,
                          !.idx = 0, !.msg = "", !.pc = "list"]

\* The invocation goes on as r; when it resolves as the first pass, start()
\* goes on to setInterval
TaggerGoesOn(k, r) ==
  /\ taggerPass' = [taggerPass EXCEPT ![k] = r]
  /\ taggerProc' = IF r.pc = "resolved" /\ taggerProc = "first"
                   THEN "running" ELSE taggerProc

\* The invocation rejects: start().catch exits the process for the first pass,
\* the timer callback's .catch logs
TaggerRejects(k) ==
  /\ taggerPass' = [taggerPass EXCEPT
                      ![k] = TaggerSettled("rejected", taggerPass[k].pc)]
  /\ taggerProc' = IF taggerProc = "first" THEN "exited" ELSE taggerProc

(***************************************************************************)
(* Configuration: the environment and the tag directory                    *)
(***************************************************************************)
ADDRESS_ISSUE_TAG_NAME ==
  <<"A", "D", "D", "R", "E", "S", "S", " ", "I", "S", "S", "U", "E">>

\* The tag as an account may spell it
S_Address_Issue ==
  <<"A", "d", "d", "r", "e", "s", "s", " ", "I", "s", "s", "u", "e">>

AllEnv == {"SHOPIFY_SHOP_DOMAIN", "SHOPIFY_ADMIN_ACCESS_TOKEN",
           "SHIPSTATION_API_KEY", "SHIPSTATION_API_SECRET"}

\* missingEnvVars (poller): the required variables that are not set
missingEnvVars == AllEnv \ env

\* requireEnv (tagger): the required variables that are not set
requireEnv == {"SHIPSTATION_API_KEY", "SHIPSTATION_API_SECRET"} \ env

\* getTagId / getTagIdByName: tags.find(name matches, ignoring case) -> tagId
\* or null
getTagId(tagName) ==
  LET match == {t \in tags : toLowerCase(t.name) = toLowerCase(tagName)}
  IN  IF match = {} THEN None
      ELSE Some((CHOOSE t \in match : \A u \in match : t.tagId <= u.tagId).tagId)

\* The environments and tag directories a behaviour may start in
Envs == {AllEnv, AllEnv \ {"SHIPSTATION_API_SECRET"},
         AllEnv \ {"SHOPIFY_ADMIN_ACCESS_TOKEN"}}
TagDirectories == {{}, {[name |-> S_Address_Issue, tagId |-> 7]}}

(***************************************************************************)
(* Init                                                                    *)
(***************************************************************************)
Summaries == {Some(S_ERROR), Some(S_NO_ISSUES)}

\* Nothing has run: the tables are empty, no order exists
Fresh ==
  /\ taggerBoots = 1
  /\ taggerRuns = 0
  /\ orderStatus = [o \in Orders |-> None]
  /\ addressVerified = [o \in Orders |-> None]
  /\ taggerTagCalls = [id \in {OrderId(o) : o \in Orders} |-> 0]
  /\ taggerProcessed = <<>>
  /\ taggerPass = [k \in Passes |-> TaggerIdlePass]
  /\ boots = 1
  /\ now = 0
  /\ nextFire = 0
  /\ runs = 0
  /\ shop = {}
  /\ updatedAt = [o \in Orders |-> 0]
  /\ summary = [o \in Orders |-> None]
  /\ inSS = [o \in Orders |-> FALSE]
  /\ tagCalls = [o \in Orders |-> 0]
  /\ state = <<>>
  /\ processed = <<>>
  /\ pass = [k \in Passes |-> IdlePass]
  /\ returned = [o \in Orders |-> FALSE]

Init ==
  /\ Fresh
  /\ \E service \in {"poller", "tagger"} :
       /\ proc = IF service = "poller" THEN "init" ELSE "off"
       /\ taggerProc = IF service = "tagger" THEN "init" ELSE "off"
  /\ env \in Envs
  /\ tags \in TagDirectories
  /\ arg = None
  /\ result = None

(***************************************************************************)
(* start()                                                                 *)
(***************************************************************************)
\* missingEnvVars() is not empty, or getTagId() finds no tag: process.exit(1)
StartupFails ==
  /\ proc = "init"
  /\ missingEnvVars # {} \/ getTagId(ADDRESS_ISSUE_TAG_NAME) = None
  /\ proc' = "exited"
  /\ UNCHANGED <<boots, now, nextFire, runs, shop, updatedAt, summary,
                 inSS, tagCalls, state, processed, pass, returned>>
  /\ UNCHANGED <<taggerVars, hostVars, probeVars>>

\* initDatabase() or getTagId() rejects: start().catch, process.exit(1)
StartupRejects ==
  /\ proc = "init"
  /\ missingEnvVars = {}
  /\ proc' = "exited"
  /\ UNCHANGED <<boots, now, nextFire, runs, shop, updatedAt, summary,
                 inSS, tagCalls, state, processed, pass, returned>>
  /\ UNCHANGED <<taggerVars, hostVars, probeVars>>

\* The start of a pass without the checks of start()
StartupOkUnchecked ==
  /\ proc = "init"
  /\ runs < MaxRuns
  /\ proc' = "first"
  /\ runs' = runs + 1
  /\ pass' = [pass EXCEPT ![runs + 1] =
                [IdlePass EXCEPT !.pc = "getState", !.started = Some(now)]]
  /\ UNCHANGED <<boots, now, nextFire, shop, updatedAt, summary,
                 inSS, tagCalls, state, processed, returned>>
  /\ UNCHANGED <<taggerVars, hostVars, probeVars>>

\* Configuration is complete: `await pollOnce(tagId)`, the first pass
StartupOk ==
  /\ proc = "init"
  /\ missingEnvVars = {}
  /\ getTagId(ADDRESS_ISSUE_TAG_NAME) # None
  /\ runs < MaxRuns
  /\ proc' = "first"
  /\ runs' = runs + 1
  /\ pass' = [pass EXCEPT ![runs + 1] =
                [IdlePass EXCEPT !.pc = "getState", !.started = Some(now)]]
  /\ UNCHANGED <<boots, now, nextFire, shop, updatedAt, summary,
                 inSS, tagCalls, state, processed, returned>>
  /\ UNCHANGED <<taggerVars, hostVars, probeVars>>

\* setInterval(() => pollOnce(tagId).catch(...), POLL_INTERVAL_MS): the timer
\* is due and its callback starts a pass, whatever the earlier passes are doing
TimerDue ==
  proc = "running" /\ now >= nextFire /\ runs < MaxRuns /\ boots <= MaxTimerBoots

TimerFires ==
  /\ TimerDue
  /\ runs' = runs + 1
  /\ nextFire' = nextFire + PollTicks
  /\ pass' = [pass EXCEPT ![runs + 1] =
                [IdlePass EXCEPT !.pc = "getState", !.started = Some(now)]]
  /\ UNCHANGED <<proc, boots, now, shop, updatedAt, summary,
                 inSS, tagCalls, state, processed, returned>>
  /\ UNCHANGED <<taggerVars, hostVars, probeVars>>

\* The process has exited and its supervisor starts it again: the SQLite file
\* is kept, everything in memory is gone
Restart ==
  /\ proc = "exited"
  /\ boots < MaxBoots
  /\ proc' = "init"
  /\ boots' = boots + 1
  /\ nextFire' = 0
  /\ pass' = [k \in Passes |->
                IF Active(k) THEN Settled(k, "killed", pass[k].pc) ELSE pass[k]]
  /\ UNCHANGED <<now, runs, shop, updatedAt, summary,
                 inSS, tagCalls, state, processed, returned>>
  /\ UNCHANGED <<taggerVars, hostVars, probeVars>>

\* process.on("SIGTERM" | "SIGINT"): db.close(); process.exit(0), whatever the
\* passes are doing.  A process stopped by a signal is not followed further.
Shutdown ==
  /\ proc \in {"init", "first", "running"}
  /\ proc' = "stopped"
  /\ pass' = [k \in Passes |->
                IF Active(k) THEN Settled(k, "killed", pass[k].pc) ELSE pass[k]]
  /\ UNCHANGED <<boots, now, nextFire, runs, shop, updatedAt, summary,
                 inSS, tagCalls, state, processed, returned>>
  /\ UNCHANGED <<taggerVars, hostVars, probeVars>>

(***************************************************************************)
(* pollOnce(tagId)                                                         *)
(***************************************************************************)
Alive == proc \in {"first", "running"}

At(k, where) == Alive /\ pass[k].pc = where

\* await getState("last_shopify_poll_iso"); if (!since) since = isoMinutesAgo(..)
GetStateReturns(k) ==
  /\ At(k, "getState")
  /\ LET saved == getState(WATERMARK_KEY)
     IN  pass' = [pass EXCEPT ![k].pc = "post",
                              ![k].since = IF saved = None
                                           THEN Some(isoMinutesAgo(LookbackTicks))
                                           ELSE saved]
  /\ UNCHANGED <<proc, boots, now, nextFire, runs, shop, updatedAt,
                 summary, inSS, tagCalls, state, processed, returned>>
  /\ UNCHANGED <<taggerVars, hostVars, probeVars>>

GetStateFails(k) ==
  /\ At(k, "getState")
  /\ Rejects(k)
  /\ UNCHANGED <<boots, now, runs, shop, updatedAt, summary, inSS, tagCalls,
                 state, processed, returned>>
  /\ UNCHANGED <<taggerVars, hostVars, probeVars>>

\* fetchShopifyOrdersUpdatedSince: Shopify evaluates the query of the pending
\* POST and sends the page; the response is on its way
ShopifyResponds(k) ==
  /\ At(k, "post")
  /\ pass[k].resp = None
  /\ pass' = [pass EXCEPT ![k].resp =
                Some(Page(pass[k].since[1], pass[k].after, PageSize))]
  /\ UNCHANGED <<proc, boots, now, nextFire, runs, shop, updatedAt,
                 summary, inSS, tagCalls, state, processed, returned>>
  /\ UNCHANGED <<taggerVars, hostVars, probeVars>>

\* The while loop with `break` after the first response, whatever pageInfo says
PostReturnsFirstPageOnly(k) ==
  /\ At(k, "post")
  /\ pass[k].resp # None
  /\ LET pg  == pass[k].resp[1]
         res == pass[k].results \o pg.edges
         r   == [pass[k] EXCEPT !.results = res, !.resp = None]
     IN  /\ pass' = [pass EXCEPT ![k] =
                       Advance([r EXCEPT !.newSince = Some(now)], 1)]
         /\ returned' = [o \in Orders |->
               \/ returned[o]
               \/ \E i \in DOMAIN res :
                     res[i].id = o /\ res[i].updatedAt = updatedAt[o]]
  /\ UNCHANGED <<proc, boots, now, nextFire, runs, shop, updatedAt,
                 summary, inSS, tagCalls, state, processed>>
  /\ UNCHANGED <<taggerVars, hostVars, probeVars>>

\* fetch...: the response arrives.  With hasNextPage the next POST goes out;
\* otherwise fetch returns, pollOnce takes newSince = new Date() and enters the
\* for loop.
PostReturns(k) ==
  /\ At(k, "post")
  /\ pass[k].resp # None
  /\ LET pg  == pass[k].resp[1]
         res == pass[k].results \o pg.edges
         r   == [pass[k] EXCEPT !.results = res, !.resp = None]
     IN  IF pg.hasNextPage
         THEN /\ pass' = [pass EXCEPT ![k] = [r EXCEPT !.after = pg.endCursor]]
              /\ UNCHANGED returned
         ELSE /\ pass' = [pass EXCEPT ![k] =
                            Advance([r EXCEPT !.newSince = Some(now)], 1)]
              /\ returned' = [o \in Orders |->
                    \/ returned[o]
                    \/ \E i \in DOMAIN res :
                          res[i].id = o /\ res[i].updatedAt = updatedAt[o]]
  /\ UNCHANGED <<proc, boots, now, nextFire, runs, shop, updatedAt,
                 summary, inSS, tagCalls, state, processed>>
  /\ UNCHANGED <<taggerVars, hostVars, probeVars>>

\* A scan failure that saves the poll time on its way out, as a `finally`
\* around the body of pollOnce would
PostFailsSavingWatermark(k) ==
  /\ At(k, "post")
  /\ pass[k].resp = None
  /\ state' = setState(WATERMARK_KEY, now)
  /\ Rejects(k)
  /\ UNCHANGED <<boots, now, runs, shop, updatedAt, summary, inSS, tagCalls,
                 processed, returned>>
  /\ UNCHANGED <<taggerVars, hostVars, probeVars>>

\* fetch...: client.post throws, or the response carries GraphQL errors
PostFails(k) ==
  /\ At(k, "post")
  /\ pass[k].resp = None
  /\ Rejects(k)
  /\ UNCHANGED <<boots, now, runs, shop, updatedAt, summary, inSS, tagCalls,
                 state, processed, returned>>
  /\ UNCHANGED <<taggerVars, hostVars, probeVars>>

\* The loop body without `if (already) { skippedAlready += 1; continue; }`
WasProcessedReturnsNoSkip(k) ==
  /\ At(k, "wasProcessed")
  /\ pass' = [pass EXCEPT ![k] =
                IF orderNumberFromShopifyName(Cur(k).name) = <<>>
                THEN Advance(pass[k], pass[k].idx + 1)
                ELSE [pass[k] EXCEPT !.pc = "find"]]
  /\ UNCHANGED <<proc, boots, now, nextFire, runs, shop, updatedAt,
                 summary, inSS, tagCalls, state, processed, returned>>
  /\ UNCHANGED <<taggerVars, hostVars, probeVars>>

\* const already = await wasProcessed(o.id); then the order number
WasProcessedReturns(k) ==
  /\ At(k, "wasProcessed")
  /\ LET o == Cur(k)
     IN  pass' = [pass EXCEPT ![k] =
           IF wasProcessed(o.id)
           THEN Advance([pass[k] EXCEPT !.counts.skippedAlready = @ + 1],
                        pass[k].idx + 1)
           ELSE IF orderNumberFromShopifyName(o.name) = <<>>
                THEN Advance(pass[k], pass[k].idx + 1)
                ELSE [pass[k] EXCEPT !.pc = "find"]]
  /\ UNCHANGED <<proc, boots, now, nextFire, runs, shop, updatedAt,
                 summary, inSS, tagCalls, state, processed, returned>>
  /\ UNCHANGED <<taggerVars, hostVars, probeVars>>

\* wasProcessed rejects; the call stands outside the try block
WasProcessedFails(k) ==
  /\ At(k, "wasProcessed")
  /\ Rejects(k)
  /\ UNCHANGED <<boots, now, runs, shop, updatedAt, summary, inSS, tagCalls,
                 state, processed, returned>>
  /\ UNCHANGED <<taggerVars, hostVars, probeVars>>

\* `if (!ssOrder)` taken as a failure: throw instead of the not_found branch
FindReturnsAbsentThrows(k) ==
  /\ At(k, "find")
  /\ LET found == OrdersByNumber(orderNumberFromShopifyName(Cur(k).name))
         first == CHOOSE o \in found : \A p \in found : o <= p
     IN  pass' = [pass EXCEPT
                    ![k].ssOrder = IF found = {} THEN None ELSE Some(OrderId(first)),
                    ![k].msg = IF found = {} THEN "not found" ELSE @,
                    ![k].counts.errors = IF found = {} THEN @ + 1 ELSE @,
                    ![k].pc = IF found = {} THEN "markError" ELSE "addTag"]
  /\ UNCHANGED <<proc, boots, now, nextFire, runs, shop, updatedAt,
                 summary, inSS, tagCalls, state, processed, returned>>
  /\ UNCHANGED <<taggerVars, hostVars, probeVars>>

\* const ssOrder = await findShipStationOrder(orderNumber): orders[0] || null
FindReturns(k) ==
  /\ At(k, "find")
  /\ LET found == OrdersByNumber(orderNumberFromShopifyName(Cur(k).name))
         first == CHOOSE o \in found : \A p \in found : o <= p
     IN  pass' = [pass EXCEPT
                    ![k].ssOrder = IF found = {} THEN None ELSE Some(OrderId(first)),
                    ![k].counts.notInShipStation = IF found = {} THEN @ + 1 ELSE @,
                    ![k].pc = IF found = {} THEN "markNotFound" ELSE "addTag"]
  /\ UNCHANGED <<proc, boots, now, nextFire, runs, shop, updatedAt,
                 summary, inSS, tagCalls, state, processed, returned>>
  /\ UNCHANGED <<taggerVars, hostVars, probeVars>>

\* findShipStationOrder: client.get throws; catch (e) { log; return null }
FindFails(k) ==
  /\ At(k, "find")
  /\ pass' = [pass EXCEPT ![k].ssOrder = None, ![k].lookupError = TRUE,
                          ![k].counts.notInShipStation = @ + 1,
                          ![k].pc = "markNotFound"]
  /\ UNCHANGED <<proc, boots, now, nextFire, runs, shop, updatedAt,
                 summary, inSS, tagCalls, state, processed, returned>>
  /\ UNCHANGED <<taggerVars, hostVars, probeVars>>

\* await addTagToShipStationOrder(ssOrder.orderId, tagId)
AddTagReturns(k) ==
  /\ At(k, "addTag")
  /\ tagCalls' = [tagCalls EXCEPT ![Cur(k).id] = @ + 1]
  /\ pass' = [pass EXCEPT ![k].counts.newlyTagged = @ + 1,
                          ![k].pc = "markTagged"]
  /\ UNCHANGED <<proc, boots, now, nextFire, runs, shop, updatedAt,
                 summary, inSS, state, processed, returned>>
  /\ UNCHANGED <<taggerVars, hostVars, probeVars>>

\* addTagToShipStationOrder throws: catch (e) { errors += 1; msg = ... }
AddTagFails(k) ==
  /\ At(k, "addTag")
  /\ tagCalls' = [tagCalls EXCEPT ![Cur(k).id] = @ + 1]
  /\ pass' = [pass EXCEPT ![k].msg = "addtag failed",
                          ![k].counts.errors = @ + 1,
                          ![k].pc = "markError"]
  /\ UNCHANGED <<proc, boots, now, nextFire, runs, shop, updatedAt,
                 summary, inSS, state, processed, returned>>
  /\ UNCHANGED <<taggerVars, hostVars, probeVars>>

\* The row of each of the three markProcessed calls of the loop body
OutcomeRow(k) ==
  LET o == Cur(k)
  IN  CASE pass[k].pc = "markNotFound" ->
             Row(o.id, o.name, None, "not_found", "Not found in ShipStation yet")
        [] pass[k].pc = "markTagged" ->
             Row(o.id, o.name, pass[k].ssOrder, "tagged",
                 <<"Tagged", ADDRESS_ISSUE_TAG_NAME,
                   normalize(validationResultSummary(o))>>)
        [] pass[k].pc = "markError" ->
             Row(o.id, o.name, None, "error", pass[k].msg)

MarkPcs == {"markNotFound", "markTagged", "markError"}

\* await markProcessed({...}); after not_found the loop `continue`s, otherwise
\* the pacing delay follows
MarkProcessedReturns(k) ==
  /\ Alive
  /\ pass[k].pc \in MarkPcs
  /\ processed' = markProcessed(OutcomeRow(k))
  /\ pass' = [pass EXCEPT ![k] =
                IF pass[k].pc = "markNotFound"
                THEN Advance(pass[k], pass[k].idx + 1)
                ELSE [pass[k] EXCEPT !.pc = "delay"]]
  /\ UNCHANGED <<proc, boots, now, nextFire, runs, shop, updatedAt,
                 summary, inSS, tagCalls, state, returned>>
  /\ UNCHANGED <<taggerVars, hostVars, probeVars>>

\* markProcessed rejects inside the try block: the catch block records an error
MarkProcessedFails(k) ==
  /\ Alive
  /\ pass[k].pc \in {"markNotFound", "markTagged"}
  /\ pass' = [pass EXCEPT ![k].msg = "sqlite error",
                          ![k].counts.errors = @ + 1,
                          ![k].pc = "markError"]
  /\ UNCHANGED <<proc, boots, now, nextFire, runs, shop, updatedAt,
                 summary, inSS, tagCalls, state, processed, returned>>
  /\ UNCHANGED <<taggerVars, hostVars, probeVars>>

\* markProcessed rejects inside the catch block: pollOnce rejects
MarkErrorFails(k) ==
  /\ At(k, "markError")
  /\ Rejects(k)
  /\ UNCHANGED <<boots, now, runs, shop, updatedAt, summary, inSS, tagCalls,
                 state, processed, returned>>
  /\ UNCHANGED <<taggerVars, hostVars, probeVars>>

\* The watermark saved inside the for loop, after each order's outcome
DelayElapsesSavingWatermark(k) ==
  /\ At(k, "delay")
  /\ state' = setState(WATERMARK_KEY, pass[k].newSince[1])
  /\ pass' = [pass EXCEPT ![k] = Advance(pass[k], pass[k].idx + 1)]
  /\ UNCHANGED <<proc, boots, now, nextFire, runs, shop, updatedAt,
                 summary, inSS, tagCalls, processed, returned>>
  /\ UNCHANGED <<taggerVars, hostVars, probeVars>>

\* await new Promise((r) => setTimeout(r, 200))
DelayElapses(k) ==
  /\ At(k, "delay")
  /\ pass' = [pass EXCEPT ![k] = Advance(pass[k], pass[k].idx + 1)]
  /\ UNCHANGED <<proc, boots, now, nextFire, runs, shop, updatedAt,
                 summary, inSS, tagCalls, state, processed, returned>>
  /\ UNCHANGED <<taggerVars, hostVars, probeVars>>

\* await setState("last_shopify_poll_iso", newSince); pollOnce resolves.  When
\* this was the first pass, start() goes on to setInterval.
SetStateReturns(k) ==
  /\ At(k, "setState")
  /\ state' = setState(WATERMARK_KEY, pass[k].newSince[1])
  /\ pass' = [pass EXCEPT ![k] = Settled(k, "resolved", "")]
  /\ proc' = "running"
  /\ nextFire' = IF proc = "first" THEN now + PollTicks ELSE nextFire
  /\ UNCHANGED <<boots, now, runs, shop, updatedAt,
                 summary, inSS, tagCalls, processed, returned>>
  /\ UNCHANGED <<taggerVars, hostVars, probeVars>>

SetStateFails(k) ==
  /\ At(k, "setState")
  /\ Rejects(k)
  /\ UNCHANGED <<boots, now, runs, shop, updatedAt, summary, inSS, tagCalls,
                 state, processed, returned>>
  /\ UNCHANGED <<taggerVars, hostVars, probeVars>>

(***************************************************************************)
(* The environment                                                         *)
(***************************************************************************)
\* Time passes.  A due timer fires before the clock moves on.
Tick ==
  /\ proc \notin {"off", "stopped"}
  /\ now < MaxTime
  /\ ~TimerDue
  /\ now' = now + 1
  /\ UNCHANGED <<proc, boots, nextFire, runs, shop, updatedAt,
                 summary, inSS, tagCalls, state, processed, pass, returned>>
  /\ UNCHANGED <<taggerVars, hostVars, probeVars>>

\* A customer places order o; Shopify validates its shipping address.  The
\* order's updatedAt is the time it was placed.
PlaceOrder(o) ==
  /\ proc \notin {"off", "stopped"}
  /\ o \notin shop
  /\ \A p \in Orders : p < o => p \in shop
  /\ shop' = shop \cup {o}
  /\ updatedAt' = [updatedAt EXCEPT ![o] = now]
  /\ \E v \in Summaries : summary' = [summary EXCEPT ![o] = v]
  /\ UNCHANGED <<proc, boots, now, nextFire, runs,
                 inSS, tagCalls, state, processed, pass, returned>>
  /\ UNCHANGED <<taggerVars, hostVars, probeVars>>

\* ShipStation imports order o from the shop
ShipStationImports(o) ==
  /\ proc \notin {"off", "stopped"}
  /\ o \in shop
  /\ ~inSS[o]
  /\ inSS' = [inSS EXCEPT ![o] = TRUE]
  /\ UNCHANGED <<proc, boots, now, nextFire, runs, shop, updatedAt,
                 summary, tagCalls, state, processed, pass, returned>>
  /\ UNCHANGED <<taggerVars, hostVars, probeVars>>

(***************************************************************************)
(* The tagger: start()                                                     *)
(***************************************************************************)
\* requireEnv() is not empty, or getTagIdByName() finds no tag: process.exit(1)
TaggerStartupFails ==
  /\ taggerProc = "init"
  /\ requireEnv # {} \/ getTagId(ADDRESS_ISSUE_TAG_NAME) = None
  /\ taggerProc' = "exited"
  /\ UNCHANGED <<taggerBoots, taggerRuns, orderStatus, addressVerified,
                 taggerTagCalls, taggerProcessed, taggerPass>>
  /\ UNCHANGED <<pollerVars, hostVars, probeVars>>

TaggerFirstAwait ==
  [TaggerIdlePass EXCEPT !.pc = "list", !.status = 1, !.page = 1]

\* initDatabase() or getTagIdByName() rejects: start().catch, process.exit(1)
TaggerStartupRejects ==
  /\ taggerProc = "init"
  /\ requireEnv = {}
  /\ taggerProc' = "exited"
  /\ UNCHANGED <<taggerBoots, taggerRuns, orderStatus, addressVerified,
                 taggerTagCalls, taggerProcessed, taggerPass>>
  /\ UNCHANGED <<pollerVars, hostVars, probeVars>>

\* `await scanAndTagAddressIssues(tagId)`, the first pass
TaggerStartupOk ==
  /\ taggerProc = "init"
  /\ requireEnv = {}
  /\ getTagId(ADDRESS_ISSUE_TAG_NAME) # None
  /\ taggerRuns < MaxRuns
  /\ taggerProc' = "first"
  /\ taggerRuns' = taggerRuns + 1
  /\ taggerPass' = [taggerPass EXCEPT ![taggerRuns + 1] = TaggerFirstAwait]
  /\ UNCHANGED <<taggerBoots, orderStatus, addressVerified, taggerTagCalls,
                 taggerProcessed>>
  /\ UNCHANGED <<pollerVars, hostVars, probeVars>>

\* setInterval(() => scanAndTagAddressIssues(tagId).catch(...), ...): the timer
\* callback starts a pass, whatever the earlier passes are doing
TaggerTimerFires ==
  /\ taggerProc = "running"
  /\ taggerRuns < MaxRuns
  /\ taggerBoots <= MaxTimerBoots
  /\ taggerRuns' = taggerRuns + 1
  /\ taggerPass' = [taggerPass EXCEPT ![taggerRuns + 1] = TaggerFirstAwait]
  /\ UNCHANGED <<taggerProc, taggerBoots, orderStatus, addressVerified,
                 taggerTagCalls, taggerProcessed>>
  /\ UNCHANGED <<pollerVars, hostVars, probeVars>>

\* The process has exited and its supervisor starts it again
TaggerRestart ==
  /\ taggerProc = "exited"
  /\ taggerBoots < MaxBoots
  /\ taggerProc' = "init"
  /\ taggerBoots' = taggerBoots + 1
  /\ taggerPass' = [k \in Passes |->
                      IF TaggerActive(k)
                      THEN TaggerSettled("killed", taggerPass[k].pc)
                      ELSE taggerPass[k]]
  /\ UNCHANGED <<taggerRuns, orderStatus, addressVerified, taggerTagCalls,
                 taggerProcessed>>
  /\ UNCHANGED <<pollerVars, hostVars, probeVars>>

\* process.on("SIGTERM" | "SIGINT"): db.close(); process.exit(0)
TaggerShutdown ==
  /\ taggerProc \in {"init", "first", "running"}
  /\ taggerProc' = "stopped"
  /\ taggerPass' = [k \in Passes |->
                      IF TaggerActive(k)
                      THEN TaggerSettled("killed", taggerPass[k].pc)
                      ELSE taggerPass[k]]
  /\ UNCHANGED <<taggerBoots, taggerRuns, orderStatus, addressVerified,
                 taggerTagCalls, taggerProcessed>>
  /\ UNCHANGED <<pollerVars, hostVars, probeVars>>

(***************************************************************************)
(* The tagger: scanAndTagAddressIssues(tagId)                              *)
(***************************************************************************)
TaggerAt(k, where) ==
  taggerProc \in {"first", "running"} /\ taggerPass[k].pc = where

\* const data = await listOrders({...}); an empty page ends the status
ListOrdersReturns(k) ==
  /\ TaggerAt(k, "list")
  /\ LET data == listOrders(ORDER_STATUSES[taggerPass[k].status],
                            taggerPass[k].page, PageSize)
         r    == [taggerPass[k] EXCEPT
                    !.orders = data.orders,
                    !.pages = IF data.pages = 0 THEN 1 ELSE data.pages]
     IN  TaggerGoesOn(k, IF data.orders = <<>> THEN TaggerNextStatus(r)
                         ELSE TaggerAdvance(r, 1))
  /\ UNCHANGED <<taggerBoots, taggerRuns, orderStatus, addressVerified,
                 taggerTagCalls, taggerProcessed>>
  /\ UNCHANGED <<pollerVars, hostVars, probeVars>>

\* listOrders throws: nothing catches it inside the scan
ListOrdersFails(k) ==
  /\ TaggerAt(k, "list")
  /\ TaggerRejects(k)
  /\ UNCHANGED <<taggerBoots, taggerRuns, orderStatus, addressVerified,
                 taggerTagCalls, taggerProcessed>>
  /\ UNCHANGED <<pollerVars, hostVars, probeVars>>

\* const already = await wasProcessed(orderId)
TaggerWasProcessedReturns(k) ==
  /\ TaggerAt(k, "wasProcessed")
  /\ TaggerGoesOn(k, IF TaggerWasProcessed(TaggerCur(k).orderId)
                     THEN TaggerAdvance(taggerPass[k], taggerPass[k].idx + 1)
                     ELSE [taggerPass[k] EXCEPT !.pc = "addTag"])
  /\ UNCHANGED <<taggerBoots, taggerRuns, orderStatus, addressVerified,
                 taggerTagCalls, taggerProcessed>>
  /\ UNCHANGED <<pollerVars, hostVars, probeVars>>

\* wasProcessed rejects; the call stands outside the try block
TaggerWasProcessedFails(k) ==
  /\ TaggerAt(k, "wasProcessed")
  /\ TaggerRejects(k)
  /\ UNCHANGED <<taggerBoots, taggerRuns, orderStatus, addressVerified,
                 taggerTagCalls, taggerProcessed>>
  /\ UNCHANGED <<pollerVars, hostVars, probeVars>>

\* await addTagToOrder(orderId, tagId)
TaggerAddTagReturns(k) ==
  /\ TaggerAt(k, "addTag")
  /\ taggerTagCalls' =
       [taggerTagCalls EXCEPT ![TaggerCur(k).orderId] = @ + 1]
  /\ taggerPass' = [taggerPass EXCEPT ![k].pc = "markTagged"]
  /\ UNCHANGED <<taggerProc, taggerBoots, taggerRuns, orderStatus,
                 addressVerified, taggerProcessed>>
  /\ UNCHANGED <<pollerVars, hostVars, probeVars>>

\* addTagToOrder throws: catch (e) { const msg = ... }
TaggerAddTagFails(k) ==
  /\ TaggerAt(k, "addTag")
  /\ taggerTagCalls' =
       [taggerTagCalls EXCEPT ![TaggerCur(k).orderId] = @ + 1]
  /\ taggerPass' = [taggerPass EXCEPT ![k].msg = "addtag failed",
                                      ![k].pc = "markError"]
  /\ UNCHANGED <<taggerProc, taggerBoots, taggerRuns, orderStatus,
                 addressVerified, taggerProcessed>>
  /\ UNCHANGED <<pollerVars, hostVars, probeVars>>

\* await markProcessed(orderId, orderNumber, "tagged" | "error", ...); the
\* pacing delay follows
TaggerMarkProcessedReturns(k) ==
  /\ taggerProc \in {"first", "running"}
  /\ taggerPass[k].pc \in {"markTagged", "markError"}
  /\ LET order  == TaggerCur(k)
         number == IF order.orderNumber = None THEN <<>>
                   ELSE order.orderNumber[1]
     IN  taggerProcessed' =
           IF taggerPass[k].pc = "markTagged"
           THEN TaggerMarkProcessed(order.orderId, number, "tagged",
                                    "Tagged ADDRESS ISSUE")
           ELSE TaggerMarkProcessed(order.orderId, number, "error",
                                    taggerPass[k].msg)
  /\ taggerPass' = [taggerPass EXCEPT ![k].pc = "delay"]
  /\ UNCHANGED <<taggerProc, taggerBoots, taggerRuns, orderStatus,
                 addressVerified, taggerTagCalls>>
  /\ UNCHANGED <<pollerVars, hostVars, probeVars>>

\* markProcessed rejects inside the try block: the catch block records an error
TaggerMarkProcessedFails(k) ==
  /\ TaggerAt(k, "markTagged")
  /\ taggerPass' = [taggerPass EXCEPT ![k].msg = "sqlite error",
                                      ![k].pc = "markError"]
  /\ UNCHANGED <<taggerProc, taggerBoots, taggerRuns, orderStatus,
                 addressVerified, taggerTagCalls, taggerProcessed>>
  /\ UNCHANGED <<pollerVars, hostVars, probeVars>>

\* markProcessed rejects inside the catch block: the scan rejects
TaggerMarkErrorFails(k) ==
  /\ TaggerAt(k, "markError")
  /\ TaggerRejects(k)
  /\ UNCHANGED <<taggerBoots, taggerRuns, orderStatus, addressVerified,
                 taggerTagCalls, taggerProcessed>>
  /\ UNCHANGED <<pollerVars, hostVars, probeVars>>

\* await new Promise((r) => setTimeout(r, 250))
TaggerDelayElapses(k) ==
  /\ TaggerAt(k, "delay")
  /\ TaggerGoesOn(k, TaggerAdvance(taggerPass[k], taggerPass[k].idx + 1))
  /\ UNCHANGED <<taggerBoots, taggerRuns, orderStatus, addressVerified,
                 taggerTagCalls, taggerProcessed>>
  /\ UNCHANGED <<pollerVars, hostVars, probeVars>>

\* An order comes into ShipStation, which verifies its address
ShipStationReceives(o) ==
  /\ taggerProc \notin {"off", "stopped"}
  /\ orderStatus[o] = None
  /\ \A p \in Orders : p < o => orderStatus[p] # None
  /\ \E s \in {"awaiting_shipment", "on_hold"} :
       orderStatus' = [orderStatus EXCEPT ![o] = Some(s)]
  /\ \E av \in {Some(ADDRESS_FAILED_VALUE), Some(S_VALIDATED)} :
       addressVerified' = [addressVerified EXCEPT ![o] = av]
  /\ UNCHANGED <<taggerProc, taggerBoots, taggerRuns, taggerTagCalls,
                 taggerProcessed, taggerPass>>
  /\ UNCHANGED <<pollerVars, hostVars, probeVars>>

(***************************************************************************)
(* Specification                                                           *)
(***************************************************************************)
Next ==
  \/ StartupFails
  \/ StartupRejects
  \/ StartupOk
  \/ TimerFires
  \/ Restart
  \/ Shutdown
  \/ Tick
  \/ \E o \in Orders : PlaceOrder(o)
  \/ \E o \in Orders : ShipStationImports(o)
  \/ \E k \in Passes :
       \/ GetStateReturns(k)
       \/ GetStateFails(k)
       \/ ShopifyResponds(k)
       \/ PostReturns(k)
       \/ PostFails(k)
       \/ WasProcessedReturns(k)
       \/ WasProcessedFails(k)
       \/ FindReturns(k)
       \/ FindFails(k)
       \/ AddTagReturns(k)
       \/ AddTagFails(k)
       \/ MarkProcessedReturns(k)
       \/ MarkProcessedFails(k)
       \/ MarkErrorFails(k)
       \/ DelayElapses(k)
       \/ SetStateReturns(k)
       \/ SetStateFails(k)
  \/ TaggerStartupFails
  \/ TaggerStartupRejects
  \/ TaggerStartupOk
  \/ TaggerTimerFires
  \/ TaggerRestart
  \/ TaggerShutdown
  \/ \E o \in Orders : ShipStationReceives(o)
  \/ \E k \in Passes :
       \/ ListOrdersReturns(k)
       \/ ListOrdersFails(k)
       \/ TaggerWasProcessedReturns(k)
       \/ TaggerWasProcessedFails(k)
       \/ TaggerAddTagReturns(k)
       \/ TaggerAddTagFails(k)
       \/ TaggerMarkProcessedReturns(k)
       \/ TaggerMarkProcessedFails(k)
       \/ TaggerMarkErrorFails(k)
       \/ TaggerDelayElapses(k)

Spec == Init /\ [][Next]_vars

\* One step of the scan of pass k: a response to the pending POST arrives
\* (axios resolves or rejects), fetch takes it up
ScanStep(k) == ShopifyResponds(k) \/ PostReturns(k) \/ PostFails(k)

\* One step of scanAndTagAddressIssues of pass k: the pending await settles
TaggerStep(k) ==
  \/ ListOrdersReturns(k)
  \/ ListOrdersFails(k)
  \/ TaggerWasProcessedReturns(k)
  \/ TaggerWasProcessedFails(k)
  \/ TaggerAddTagReturns(k)
  \/ TaggerAddTagFails(k)
  \/ TaggerMarkProcessedReturns(k)
  \/ TaggerMarkProcessedFails(k)
  \/ TaggerMarkErrorFails(k)
  \/ TaggerDelayElapses(k)

\* Both services configured, the tag in the directory
ScanInit ==
  /\ Fresh
  /\ \E service \in {"poller", "tagger"} :
       /\ proc = IF service = "poller" THEN "init" ELSE "off"
       /\ taggerProc = IF service = "tagger" THEN "init" ELSE "off"
  /\ env = AllEnv
  /\ tags = {[name |-> S_Address_Issue, tagId |-> 7]}
  /\ arg = None
  /\ result = None

\* The first pass of a process, from start() to the end of the pass, while
\* orders come in; no signal, no timer, no restart
ScanNext ==
  \/ StartupOk
  \/ \E o \in Orders : PlaceOrder(o)
  \/ \E o \in Orders : ShipStationImports(o)
  \/ \E k \in Passes :
       \/ GetStateReturns(k)
       \/ GetStateFails(k)
       \/ ShopifyResponds(k)
       \/ PostReturns(k)
       \/ PostFails(k)
       \/ WasProcessedReturns(k)
       \/ WasProcessedFails(k)
       \/ FindReturns(k)
       \/ FindFails(k)
       \/ AddTagReturns(k)
       \/ AddTagFails(k)
       \/ MarkProcessedReturns(k)
       \/ MarkProcessedFails(k)
       \/ MarkErrorFails(k)
       \/ DelayElapses(k)
       \/ SetStateReturns(k)
       \/ SetStateFails(k)
  \/ TaggerStartupOk
  \/ \E o \in Orders : ShipStationReceives(o)
  \/ \E k \in Passes :
       \/ ListOrdersReturns(k)
       \/ ListOrdersFails(k)
       \/ TaggerWasProcessedReturns(k)
       \/ TaggerWasProcessedFails(k)
       \/ TaggerAddTagReturns(k)
       \/ TaggerAddTagFails(k)
       \/ TaggerMarkProcessedReturns(k)
       \/ TaggerMarkProcessedFails(k)
       \/ TaggerMarkErrorFails(k)
       \/ TaggerDelayElapses(k)

\* ENABLED <<ScanStep(k)>>_vars: the pass waits for the response to a POST, or
\* has it and has not taken it up
ScanPending(k) == Alive /\ pass[k].pc = "post"

\* A ScanStep(k) step
ScanMoves(k) == pass[k].pc = "post" /\ pass'[k] # pass[k]

\* ENABLED <<TaggerStep(k)>>_vars: the pass waits at one of its awaits
TaggerPending(k) == taggerProc \in {"first", "running"} /\ TaggerActive(k)

\* A TaggerStep(k) step
TaggerMoves(k) == TaggerActive(k) /\ taggerPass'[k] # taggerPass[k]

\* Every await of a scan settles in the end: the HTTP clients have timeouts
\* (axios `timeout`), SQLite calls back, timers fire.  This is
\* WF_vars(ScanStep(k)) /\ WF_vars(TaggerStep(k)) for every pass k, each
\* written as []<>~ENABLED \/ []<><<step>>_vars with ENABLED spelled out.
SpecScan ==
  /\ ScanInit
  /\ [][ScanNext]_vars
  /\ (\A k \in Passes :
        ([]<>~ScanPending(k)) \/ ([]<><<ScanMoves(k)>>_vars))
  /\ (\A k \in Passes :
        ([]<>~TaggerPending(k)) \/ ([]<><<TaggerMoves(k)>>_vars))

(***************************************************************************)
(* isShopifyAddressIssue on its own: the function is applied to one order  *)
(* out of a table of orders, no service runs                               *)
(***************************************************************************)
\* validationResultSummary values: the three of the API in several casings,
\* and values that are none of them
SummaryWords ==
  {S_WARNING, S_ERROR, S_NO_ISSUES,
   <<"w", "a", "r", "n", "i", "n", "g">>,
   <<"W", "a", "r", "n", "i", "n", "g">>,
   <<"w", "A", "r", "N", "i", "N", "g">>,
   <<"e", "r", "r", "o", "r">>,
   <<"E", "r", "r", "o", "r">>,
   <<"n", "o", "_", "i", "s", "s", "u", "e", "s">>,
   <<"W", "A", "R", "N", "I", "N", "G", "S">>,
   <<"W", "A", "R", "N">>,
   <<"E", "R", "R", " ", "O", "R">>,
   <<"I", "N", "V", "A", "L", "I", "D">>,
   <<>>}

\* What surrounds the value
Pads == {<<>>, <<" ">>, <<"\t">>, <<"\n", " ">>}

\* Orders as the caller may hand them over: with an address whose field is a
\* string or null, and without an address
ProbeOrders ==
  {[id |-> 1, name |-> OrderName(1), updatedAt |-> 0,
    shippingAddress |-> Some([validationResultSummary |-> Some(l \o w \o r)])] :
      <<l, w, r>> \in Pads \X SummaryWords \X Pads}
  \cup {[id |-> 1, name |-> OrderName(1), updatedAt |-> 0,
         shippingAddress |-> Some([validationResultSummary |-> None])],
        [id |-> 1, name |-> OrderName(1), updatedAt |-> 0,
         shippingAddress |-> None]}

ClassifierInit ==
  /\ Fresh
  /\ proc = "off"
  /\ taggerProc = "off"
  /\ env = AllEnv
  /\ tags = {}
  /\ arg \in {Some(order) : order \in ProbeOrders}
  /\ result = None

\* result = isShopifyAddressIssue(arg)
Classify ==
  /\ arg # None
  /\ result = None
  /\ result' = Some(isShopifyAddressIssue(arg[1]))
  /\ UNCHANGED <<arg, pollerVars, taggerVars, hostVars>>

ClassifierNext == Classify

SpecClassifier == ClassifierInit /\ [][ClassifierNext]_vars

(***************************************************************************)
(* isAddressVerificationFailed on its own, applied to one ShipStation      *)
(* order out of a table of orders                                          *)
(***************************************************************************)
\* shipTo.addressVerified values: the four of the ShipStation Address model
\* as documented, in lower and in upper case, and values that are none of them
VerifiedWords ==
  {S_NOT_VALIDATED, S_VALIDATED, S_WARNING_VALUE, ADDRESS_FAILED_VALUE, <<>>,
   <<"a", "d", "d", "r", "e", "s", "s", " ", "n", "o", "t", " ", "y",
       "e", "t", " ", "v", "a", "l", "i", "d", "a", "t", "e", "d">>,
   <<"A", "D", "D", "R", "E", "S", "S", " ", "N", "O", "T", " ", "Y",
       "E", "T", " ", "V", "A", "L", "I", "D", "A", "T", "E", "D">>,
   <<"a", "d", "d", "r", "e", "s", "s", " ", "v", "a", "l", "i", "d",
       "a", "t", "e", "d", " ", "s", "u", "c", "c", "e", "s", "s", "f",
       "u", "l", "l", "y">>,
   <<"A", "D", "D", "R", "E", "S", "S", " ", "V", "A", "L", "I", "D",
       "A", "T", "E", "D", " ", "S", "U", "C", "C", "E", "S", "S", "F",
       "U", "L", "L", "Y">>,
   <<"a", "d", "d", "r", "e", "s", "s", " ", "v", "a", "l", "i", "d",
       "a", "t", "i", "o", "n", " ", "w", "a", "r", "n", "i", "n", "g">>,
   <<"A", "D", "D", "R", "E", "S", "S", " ", "V", "A", "L", "I", "D",
       "A", "T", "I", "O", "N", " ", "W", "A", "R", "N", "I", "N", "G">>,
   <<"a", "d", "d", "r", "e", "s", "s", " ", "v", "a", "l", "i", "d",
       "a", "t", "i", "o", "n", " ", "f", "a", "i", "l", "e", "d">>,
   <<"A", "D", "D", "R", "E", "S", "S", " ", "V", "A", "L", "I", "D",
       "A", "T", "I", "O", "N", " ", "F", "A", "I", "L", "E", "D">>,
   <<"W", "A", "R", "N", "I", "N", "G">>,
   <<"f", "a", "i", "l", "e", "d">>,
   <<"v", "e", "r", "i", "f", "i", "e", "d">>,
   <<"A", "d", "d", "r", "e", "s", "s", " ", "v", "a", "l", "i", "d",
       "a", "t", "i", "o", "n", " ", "f", "a", "i", "l", "u", "r", "e">>}

\* ShipStation orders as listOrders may return them: with a shipTo whose
\* addressVerified is a string or null, and without a shipTo
VerificationProbeOrders ==
  {[orderId |-> OrderId(1),
    orderNumber |-> Some(orderNumberFromShopifyName(OrderName(1))),
    shipTo |-> Some([addressVerified |-> Some(l \o w \o r)])] :
      <<l, w, r>> \in Pads \X VerifiedWords \X Pads}
  \cup {[orderId |-> OrderId(1),
         orderNumber |-> Some(orderNumberFromShopifyName(OrderName(1))),
         shipTo |-> Some([addressVerified |-> None])],
        [orderId |-> OrderId(1),
         orderNumber |-> Some(orderNumberFromShopifyName(OrderName(1))),
         shipTo |-> None]}

VerificationInit ==
  /\ Fresh
  /\ proc = "off"
  /\ taggerProc = "off"
  /\ env = AllEnv
  /\ tags = {}
  /\ arg \in {Some(order) : order \in VerificationProbeOrders}
  /\ result = None

\* result = isAddressVerificationFailed(arg)
ClassifyVerification ==
  /\ arg # None
  /\ result = None
  /\ result' = Some(isAddressVerificationFailed(arg[1]))
  /\ UNCHANGED <<arg, pollerVars, taggerVars, hostVars>>

VerificationNext == ClassifyVerification

SpecVerification == VerificationInit /\ [][VerificationNext]_vars

(***************************************************************************)
(* Properties                                                              *)
(***************************************************************************)
HasWatermark == WATERMARK_KEY \in DOMAIN state
Watermark    == state[WATERMARK_KEY]

\* The passes in progress
InProgress == {k \in Passes : Alive /\ Active(k)}

\* The rows of table tbl, and of the ledger, that carry source identifier gid
RowsIn(tbl, gid) == {i \in DOMAIN tbl : tbl[i].shopify_order_gid = gid}
RowsOf(gid) == RowsIn(processed, gid)

\* The same for the tagger's ledger and a ShipStation order id
OrderIds == {OrderId(o) : o \in Orders}
TaggerRowsIn(tbl, orderId) ==
  {i \in DOMAIN tbl : tbl[i].shipstation_order_id = orderId}
TaggerRowsOf(orderId) == TaggerRowsIn(taggerProcessed, orderId)

\* Pass k takes a step out of the await `from`
Leaves(k, from) == pass[k].pc = from /\ pass'[k].pc # from

\* The per-order awaits of the for loop
PerOrderPcs ==
  {"wasProcessed", "find", "addTag", "markNotFound", "markTagged", "markError",
   "delay"}

\* C1: the tag-apply call (addTagToShipStationOrder) is invoked at most once
\* for any given source order identifier, over all passes.
C1_TagAtMostOnce == \A o \in Orders : tagCalls[o] <= 1

\* C2: passes never overlap: at most one pass is in progress at any moment.
C2_NoOverlap == Cardinality(InProgress) <= 1

\* C3: the ledger (of the poller and of the tagger) never holds two rows for
\* one source identifier, and a write for an identifier that has a row leaves
\* that identifier with the one row it had (at the same place in the table)
\* instead of adding a second.
C3_Dedup ==
  [][/\ \A o \in Orders :
          /\ Cardinality(RowsOf(o)') <= 1
          /\ (RowsOf(o) # {} => RowsOf(o)' = RowsOf(o))
     /\ \A id \in OrderIds :
          /\ Cardinality(TaggerRowsOf(id)') <= 1
          /\ (TaggerRowsOf(id) # {} => TaggerRowsOf(id)' = TaggerRowsOf(id))]_vars

\* C3 witness: two passes have each written the outcome of the same order, and
\* the ledger holds one row for it.
C3_Witness ==
  \E j, k \in Passes :
    /\ j # k
    /\ pass[j].pc = "delay" /\ pass[k].pc = "delay"
    /\ Cur(j).id = Cur(k).id
    /\ Cardinality(RowsOf(Cur(j).id)) = 1

\* C4: every write of the watermark stores a value greater than or equal to
\* the value it replaces.
C4_WatermarkMonotone ==
  [][HasWatermark => state'[WATERMARK_KEY] >= Watermark]_vars

\* C5: the watermark a pass stores when it ends is the time at which that pass
\* started.
C5_WatermarkIsPassStart ==
  [][\A k \in Passes :
       (pass[k].pc = "setState" /\ pass'[k].pc = "resolved")
         => state'[WATERMARK_KEY] = pass[k].started[1]]_vars

\* C6: no order is left behind the watermark: an order whose modification time
\* lies before the stored watermark (so no later scan asks for it) has been
\* returned by a completed scan.
C6_NoOrderMissed ==
  \A o \in shop : (HasWatermark /\ updatedAt[o] < Watermark) => returned[o]

\* C7: a step in which the scan of a pass fails leaves the stored watermark as
\* it was and ends the pass: the pass takes no step after it.
C7_ScanFailureKeepsWatermark ==
  [][\A k \in Passes :
       /\ (pass[k].pc = "post" /\ pass'[k].pc = "rejected") => state' = state
       /\ (pass[k].pc = "rejected" /\ pass[k].cause = "post")
            => pass'[k] = pass[k]]_vars

\* C7 witness: a pass was aborted by a scan failure while a watermark is stored.
C7_Witness ==
  \E k \in Passes :
    pass[k].pc = "rejected" /\ pass[k].cause = "post" /\ HasWatermark

\* Pass k reads its since bound in this step, after pass k - 1 was aborted by
\* a scan failure
AfterScanAbort(k) ==
  /\ k > 1
  /\ Leaves(k, "getState") /\ pass'[k].pc = "post"
  /\ pass[k - 1].pc = "rejected" /\ pass[k - 1].cause = "post"

\* The same, with no other pass in progress
NextAfterScanAbort(k) == AfterScanAbort(k) /\ InProgress = {k}

\* C8 as stated: the pass after a pass aborted by a scan failure scans with the
\* same since bound as the aborted pass.
C8_SameSinceAfterAbort ==
  [][\A k \in Passes :
       NextAfterScanAbort(k) => pass'[k].since = pass[k - 1].since]_vars

\* C8 as amended: the pass after a pass aborted by a scan failure takes its
\* since bound from the store as it is when the pass starts.  With a stored
\* watermark that still has the value the aborted pass read, the bound is the
\* aborted pass's; with no stored watermark (first run) it is the present time
\* minus the lookback, which is never before the aborted pass's bound.
C8_SinceAfterAbort ==
  [][\A k \in Passes :
       AfterScanAbort(k) =>
         IF HasWatermark
         THEN /\ pass'[k].since = Some(Watermark)
              /\ (pass[k - 1].since = Some(Watermark)
                    => pass'[k].since = pass[k - 1].since)
         ELSE /\ pass'[k].since = Some(now - LookbackTicks)
              /\ pass'[k].since[1] >= pass[k - 1].since[1]]_vars

\* C8 witness: a first run was aborted by a scan failure and the next pass,
\* also without a stored watermark, scans with a later since bound.
C8_Witness ==
  \E k \in Passes :
    /\ k > 1
    /\ pass[k - 1].pc = "rejected" /\ pass[k - 1].cause = "post"
    /\ pass[k].pc = "post"
    /\ ~HasWatermark
    /\ pass[k].since[1] > pass[k - 1].since[1]

\* C9: no failure of a per-order step aborts the pass: a pass that is in the
\* for loop is not rejected.
C9_PerOrderFailuresIsolated ==
  [][\A k \in Passes :
       pass[k].pc \in PerOrderPcs => pass'[k].pc # "rejected"]_vars

\* C10: when the destination lookup of an order failed, the ledger row the
\* pass then writes for the order has status error, not not_found.
C10_LookupFailureIsError ==
  [][\A k \in Passes :
       (pass[k].lookupError /\ Leaves(k, "markNotFound")
          /\ processed' # processed)
         => \A i \in RowsIn(processed', Cur(k).id) :
               processed'[i].status = "error"]_vars

\* Pass k goes on to the next order, or past the last one
GoesOn(k) == pass'[k].pc \in {"delay", "wasProcessed", "setState"}

\* C11: for a new address-issue order found in ShipStation the tag call is made
\* once; when it succeeded the ledger row of the order is written with status
\* tagged, when it failed with status error and the error detail; either way
\* the pass goes on to the next order.  (A pass ended by a signal is set
\* aside.)
C11_TagOutcomeRecorded ==
  [][\A k \in Passes :
       LET id == Cur(k).id
           written(status) ==
             /\ GoesOn(k)
             /\ RowsIn(processed', id) # {}
             /\ \A i \in RowsIn(processed', id) : processed'[i].status = status
       IN  /\ Leaves(k, "addTag") /\ pass'[k].pc # "killed"
             => /\ tagCalls'[id] = tagCalls[id] + 1
                /\ pass'[k].pc \in {"markTagged", "markError"}
           /\ Leaves(k, "markTagged") /\ pass'[k].pc # "killed"
             => written("tagged")
           /\ Leaves(k, "markError") /\ pass'[k].pc # "killed"
                /\ pass[k].msg = "addtag failed"
             => /\ written("error")
                /\ \A i \in RowsIn(processed', id) :
                      processed'[i].note = "addtag failed"]_vars

\* C12: when a pass comes to an address-issue order that has a ledger row,
\* whatever the row's status, it makes no lookup, no tag call and no ledger
\* write for it: the ledger is unchanged and of the counters of the poll
\* summary only skippedAlready grows on account of this order (inspected and
\* addressIssues count the orders the loop goes on to).
C12_AlreadySeenSkipped ==
  [][/\ \A k \in Passes :
          (/\ pass[k].pc = "wasProcessed" /\ pass'[k] # pass[k]
           /\ pass'[k].pc \notin {"killed", "rejected"}
           /\ RowsOf(Cur(k).id) # {})
            => /\ processed' = processed
               /\ tagCalls' = tagCalls
               /\ pass'[k].idx > pass[k].idx
               /\ pass'[k].pc \in {"wasProcessed", "setState"}
               /\ pass'[k].counts.skippedAlready
                    = pass[k].counts.skippedAlready + 1
               /\ pass'[k].counts.newlyTagged = pass[k].counts.newlyTagged
               /\ pass'[k].counts.notInShipStation
                    = pass[k].counts.notInShipStation
               /\ pass'[k].counts.errors = pass[k].counts.errors
     /\ \A k \in Passes :
          (/\ taggerPass[k].pc = "wasProcessed" /\ taggerPass'[k] # taggerPass[k]
           /\ taggerPass'[k].pc \notin {"killed", "rejected"}
           /\ TaggerRowsOf(TaggerCur(k).orderId) # {})
            => /\ taggerProcessed' = taggerProcessed
               /\ taggerTagCalls' = taggerTagCalls
               /\ taggerPass'[k].pc # "addTag"]_vars

\* C12 happens: a pass has gone past the one order of the shop, which it
\* skipped as already seen, and the row of the order says not_found
C12_Witness ==
  \E k \in Passes : \E o \in shop :
    /\ shop = {o}
    /\ pass[k].pc = "setState"
    /\ pass[k].counts.skippedAlready = 1
    /\ \E i \in RowsOf(o) : processed[i].status = "not_found"

\* C13: a pass that re-examines an order whose ledger row has status not_found
\* or error looks the order up again (and so tags it once it is present).
C13_UnfinishedRetried ==
  [][\A k \in Passes :
       (/\ Leaves(k, "wasProcessed")
        /\ pass'[k].pc \notin {"killed", "rejected"}
        /\ \E i \in RowsOf(Cur(k).id) :
              processed[i].status \in {"not_found", "error"})
         => pass'[k].pc = "find"]_vars

\* C14: when a pass ends in an error the process keeps running, whichever
\* pass it was.
C14_ProcessSurvivesPass ==
  [][/\ \A k \in Passes :
          (pass[k].pc # "rejected" /\ pass'[k].pc = "rejected")
            => proc' \in {"first", "running"}
     /\ \A k \in Passes :
          (taggerPass[k].pc # "rejected" /\ taggerPass'[k].pc = "rejected")
            => taggerProc' \in {"first", "running"}]_vars

\* C15: the process does not exit on a signal while a pass stands between a
\* successful tag call and the ledger write that records it.
C15_NoExitBeforeOutcomeWrite ==
  [][/\ (proc # "stopped" /\ proc' = "stopped")
          => \A k \in Passes : pass[k].pc # "markTagged"
     /\ (taggerProc # "stopped" /\ taggerProc' = "stopped")
          => \A k \in Passes : taggerPass[k].pc # "markTagged"]_vars

\* Pass k runs over what pass j ran over: pass j went through its orders and
\* was rejected by the watermark write, and pass k got the same since bound
\* and the same orders from Shopify
RunsAgain(k, j) ==
  /\ pass[j].pc = "rejected" /\ pass[j].cause = "setState"
  /\ pass[k].pc \in PerOrderPcs \cup {"setState"}
  /\ pass[k].since = pass[j].since
  /\ pass[k].results = pass[j].results

\* C17: a pass that runs over the orders and the since bound of the pass
\* before it, which went through all of them, leaves the ledger as that pass
\* left it and makes no tag call.  The second pass is the first pass of a
\* process, so that the first one, of the process before, had ended when it
\* began.
C17_SecondPassChangesNothing ==
  [][\A k \in Passes \ {1} :
       (proc = "first" /\ RunsAgain(k, k - 1) /\ pass'[k] # pass[k])
         => /\ processed' = processed
            /\ tagCalls' = tagCalls
            /\ pass'[k].pc \in {"wasProcessed", "setState", "resolved",
                                "rejected", "killed"}]_vars

\* C17 happens: the second pass has gone through the orders of the first,
\* an address issue among them which it skipped, and the ledger is not empty
C17_Witness ==
  \E k \in Passes \ {1} :
    /\ proc = "first"
    /\ RunsAgain(k, k - 1)
    /\ pass[k].pc = "setState"
    /\ pass[k].counts.skippedAlready > 0
    /\ \E i \in DOMAIN processed : processed[i].status = "tagged"

\* The lookup of pass k returns, without having failed, that the order is not
\* in ShipStation
LookupSaysAbsent(k) ==
  /\ Leaves(k, "find")
  /\ pass'[k].pc \notin {"killed", "addTag"}
  /\ ~pass'[k].lookupError

\* Pass k comes back from the write of the not_found row of an absent order
AbsentWriteDone(k) ==
  /\ Leaves(k, "markNotFound")
  /\ pass'[k].pc # "killed"
  /\ ~pass[k].lookupError

\* The ledger has, for the order pass k is at, one row: not_found, no
\* ShipStation id
NotFoundRow(k) ==
  /\ RowsIn(processed', Cur(k).id) # {}
  /\ \A i \in RowsIn(processed', Cur(k).id) :
       /\ processed'[i].status = "not_found"
       /\ processed'[i].shipstation_order_id = None

C19_OnlyIssuesHandled ==
  /\ \A i \in DOMAIN processed :
       \E o \in shop : /\ processed[i].shopify_order_gid = o
                       /\ isShopifyAddressIssue(Node(o))
  /\ \A o \in Orders :
       tagCalls[o] > 0 => o \in shop /\ isShopifyAddressIssue(Node(o))
  /\ \A k \in Passes :
       pass[k].pc \in PerOrderPcs => isShopifyAddressIssue(Cur(k))
  /\ \A i \in DOMAIN taggerProcessed :
       \E o \in Orders :
         /\ taggerProcessed[i].shipstation_order_id = OrderId(o)
         /\ isAddressVerificationFailed(TaggerOrder(o))
  /\ \A o \in Orders :
       taggerTagCalls[OrderId(o)] > 0
         => isAddressVerificationFailed(TaggerOrder(o))
  /\ \A k \in Passes :
       taggerPass[k].pc \in {"wasProcessed", "addTag", "markTagged",
                             "markError", "delay"}
         => isAddressVerificationFailed(TaggerCur(k))

\* C19 happens: a pass went through two orders, the first no address issue
\* and the second one, and wrote a row for the second only
C19_Witness ==
  \E k \in Passes :
    /\ pass[k].pc = "setState"
    /\ Len(pass[k].results) = 2
    /\ ~isShopifyAddressIssue(pass[k].results[1])
    /\ isShopifyAddressIssue(pass[k].results[2])
    /\ pass[k].counts.inspected = 2
    /\ pass[k].counts.addressIssues = 1
    /\ RowsOf(pass[k].results[1].id) = {}
    /\ RowsOf(pass[k].results[2].id) # {}

\* The configuration check of start() fails for the service that runs
PollerUnconfigured ==
  proc # "off"
    /\ (missingEnvVars # {} \/ getTagId(ADDRESS_ISSUE_TAG_NAME) = None)
TaggerUnconfigured ==
  taggerProc # "off"
    /\ (requireEnv # {} \/ getTagId(ADDRESS_ISSUE_TAG_NAME) = None)

\* C16: with a required credential missing or the tag name unresolvable, the
\* process never gets past startup: no pass is ever started, so there is no
\* scan, no tag-apply call, no ledger row and no watermark.
C16_FailFast ==
  /\ PollerUnconfigured =>
       /\ proc \notin {"first", "running"}
       /\ runs = 0 /\ \A k \in Passes : pass[k] = IdlePass
       /\ \A o \in Orders : tagCalls[o] = 0
       /\ processed = <<>> /\ state = <<>>
  /\ TaggerUnconfigured =>
       /\ taggerProc \notin {"first", "running"}
       /\ taggerRuns = 0 /\ \A k \in Passes : taggerPass[k] = TaggerIdlePass
       /\ \A id \in OrderIds : taggerTagCalls[id] = 0
       /\ taggerProcessed = <<>>

\* C16 witness: the credentials are complete, the tag is not in the directory,
\* and the process has exited at startup a second time, an order waiting.
C16_Witness ==
  /\ PollerUnconfigured /\ missingEnvVars = {}
  /\ proc = "exited" /\ boots = 2
  /\ \E o \in shop : isShopifyAddressIssue(Node(o))

\* The value of the field is, ignoring case, the word w
SameIgnoringCase(s, w) ==
  /\ Len(s) = Len(w)
  /\ \A i \in DOMAIN s : LowerChar(s[i]) = LowerChar(w[i])

\* Some white space, then WARNING or ERROR in any casing, then some white space
IsWarningOrError(s) ==
  \E i \in 0..Len(s) : \E j \in i..Len(s) :
    /\ \A n \in 1..i : s[n] \in WhiteSpace
    /\ \A n \in (j + 1)..Len(s) : s[n] \in WhiteSpace
    /\ \/ SameIgnoringCase(SubSeq(s, i + 1, j), S_WARNING)
       \/ SameIgnoringCase(SubSeq(s, i + 1, j), S_ERROR)

\* C20: isShopifyAddressIssue returns true exactly when the order has a
\* shippingAddress whose validationResultSummary is a string that, ignoring
\* case and surrounding white space, is WARNING or ERROR; it returns false for
\* NO_ISSUES, null, a missing address and any other value.
C20_IssueIffWarningOrError ==
  result # None =>
    (result[1] <=>
       /\ arg[1].shippingAddress # None
       /\ arg[1].shippingAddress[1].validationResultSummary # None
       /\ IsWarningOrError(arg[1].shippingAddress[1].validationResultSummary[1]))

\* C20 happens: a padded lower-case warning was classified as an issue
C20_Witness ==
  /\ result = Some(TRUE)
  /\ arg[1].shippingAddress[1].validationResultSummary
       = Some(<<"\n", " ", "w", "a", "r", "n", "i", "n", "g", "\t">>)

\* C21: isAddressVerificationFailed returns true exactly when the order has a
\* shipTo whose addressVerified is, in any casing, "Address validation
\* warning" or "Address validation failed"; it returns false for the
\* not-validated and the verified value and for a null or missing field.
C21_TrueForWarningAndFailed ==
  result # None =>
    (result[1] <=>
       /\ arg[1].shipTo # None
       /\ arg[1].shipTo[1].addressVerified # None
       /\ \/ SameIgnoringCase(arg[1].shipTo[1].addressVerified[1],
                              S_WARNING_VALUE)
          \/ SameIgnoringCase(arg[1].shipTo[1].addressVerified[1],
                              ADDRESS_FAILED_VALUE))

\* A step of pass k that takes up the response to its POST
TakesPage(k) ==
  /\ pass[k].pc = "post" /\ pass[k].resp # None
  /\ pass'[k] # pass[k]
  /\ pass'[k].pc \notin {"killed", "rejected"}

\* A step of the scan of pass k of the tagger that goes on
TaggerScans(k) ==
  /\ TaggerActive(k)
  /\ taggerPass'[k] # taggerPass[k]
  /\ taggerPass'[k].pc \notin {"killed", "rejected"}

\* The page pass k of the tagger has in hand: the one it is going through, or
\* the one the pending listOrders call returns
PageInHand(k) ==
  IF taggerPass[k].pc = "list"
  THEN LET data == listOrders(ORDER_STATUSES[taggerPass[k].status],
                              taggerPass[k].page, PageSize)
       IN  [orders |-> data.orders,
            pages  |-> IF data.pages = 0 THEN 1 ELSE data.pages]
  ELSE [orders |-> taggerPass[k].orders, pages |-> taggerPass[k].pages]

\* Orders of that page, after position i and before position j, that the
\* tagger's loop body handles
FailedBetween(k, i, j) ==
  {n \in DOMAIN PageInHand(k).orders :
     /\ i < n /\ n < j
     /\ PageInHand(k).orders[n].orderId # 0
     /\ isAddressVerificationFailed(PageInHand(k).orders[n])}

\* The tagger's loop leaves the page of pass k with no order left to handle
PageDone(k) ==
  FailedBetween(k, taggerPass[k].idx, Len(PageInHand(k).orders) + 1) = {}

\* C22: the scan takes every page once and in order, and hands every order
\* of every page to the per-order loop once.  Shopify scan: the edges of each
\* response are appended to the results; with hasNextPage the next request
\* carries the endCursor of this one, which lies behind the cursor before;
\* otherwise the loop starts at the first order, and it has inspected every
\* order when it comes to the watermark write.  ShipStation scan: within a
\* status page follows page, by one, up to `pages`; status follows status;
\* inside a page the position only grows and passes over no order the loop
\* body handles.  And the scans end: a pass does not stay in the Shopify scan,
\* a pass of the tagger does not stay active.
C22_ScanTakesEveryPageOnce ==
  /\ [][\A k \in Passes :
          /\ TakesPage(k)
               => LET pg == pass[k].resp[1]
                  IN  /\ pass'[k].results = pass[k].results \o pg.edges
                      /\ pg.hasNextPage
                           => /\ pass'[k].pc = "post"
                              /\ pass'[k].resp = None
                              /\ pass'[k].after = pg.endCursor
                              /\ pass[k].after # None
                                   => Before(pass[k].after[1], pg.endCursor[1])
                      /\ ~pg.hasNextPage
                           => pass'[k].pc \in {"wasProcessed", "setState"}
          /\ pass'[k].pc \in PerOrderPcs
               => pass'[k].counts.inspected = pass'[k].idx
          /\ pass'[k].pc = "setState"
               => pass'[k].counts.inspected = Len(pass'[k].results)
          /\ TaggerScans(k)
               => LET r  == taggerPass[k]
                      q  == taggerPass'[k]
                      pg == PageInHand(k)
                  IN  \/ /\ q.status = r.status /\ q.page = r.page
                         /\ q.pc \notin {"resolved", "list"}
                         /\ q.idx = r.idx
                         /\ q.orders = r.orders
                      \/ /\ q.status = r.status /\ q.page = r.page
                         /\ q.pc = "wasProcessed"
                         /\ q.idx > r.idx
                         /\ q.orders = pg.orders
                         /\ FailedBetween(k, r.idx, q.idx) = {}
                      \/ /\ q.status = r.status /\ q.page = r.page + 1
                         /\ q.pc = "list"
                         /\ pg.orders # <<>> /\ r.page < pg.pages
                         /\ PageDone(k)
                      \/ /\ q.status = r.status + 1 /\ q.page = 1
                         /\ q.pc = "list"
                         /\ pg.orders = <<>> \/ r.page >= pg.pages
                         /\ PageDone(k)
                      \/ /\ q.pc = "resolved"
                         /\ r.status = Len(ORDER_STATUSES)
                         /\ pg.orders = <<>> \/ r.page >= pg.pages
                         /\ PageDone(k)]_vars
  /\ \A k \in Passes : (pass[k].pc = "post") ~> (pass[k].pc # "post")
  /\ \A k \in Passes : TaggerActive(k) ~> ~TaggerActive(k)

\* C22 happens: a pass of the poller got two pages and inspected both orders,
\* or a pass of the tagger is at the second page of the second status
C22_Witness ==
  \/ \E k \in Passes :
       /\ pass[k].pc = "setState"
       /\ Len(pass[k].results) = 2
       /\ pass[k].counts.inspected = 2
  \/ \E k \in Passes :
       /\ taggerPass[k].status = 2 /\ taggerPass[k].page = 2
       /\ taggerPass[k].pc = "wasProcessed"

\* C23: the poller's state table changes only in the step in which a pass
\* that has gone past its last order completes the watermark write, and that
\* pass is over afterwards: a pass writes the watermark at most once, after
\* its last order.  A pass that ends by an exception or with the process
\* leaves the watermark as it is, and a pass that is over does nothing more.
C23_WatermarkOnceAtEnd ==
  [][/\ state' # state
          => \E k \in Passes :
               /\ pass[k].pc = "setState"
               /\ pass[k].idx = Len(pass[k].results) + 1
               /\ pass[k].counts.inspected = Len(pass[k].results)
               /\ pass'[k].pc = "resolved"
               /\ state' = setState(WATERMARK_KEY, pass[k].newSince[1])
     /\ \A k \in Passes :
          /\ (Active(k) /\ pass'[k].pc \in {"rejected", "killed"})
               => state' = state
          /\ pass[k].pc \in {"resolved", "rejected", "killed"}
               => pass'[k] = pass[k]]_vars

\* C23 happens: a pass went through two orders and wrote the watermark, and a
\* later pass ended by an exception inside its loop
C23_Witness ==
  \E j \in Passes : \E k \in Passes :
    /\ j < k
    /\ pass[j].pc = "resolved"
    /\ pass[k].pc = "rejected" /\ pass[k].cause = ""
    /\ HasWatermark
    /\ Len(processed) = 2

\* C24: when a pass has gone through its orders and comes to the watermark
\* write and the poll summary, its counters partition the address issues:
\* addressIssues = newlyTagged + notInShipStation + skippedAlready + errors,
\* and addressIssues <= inspected.
C24_CountersPartition ==
  \A k \in Passes :
    pass[k].pc = "setState"
      => LET c == pass[k].counts
         IN  /\ c.addressIssues = c.newlyTagged + c.notInShipStation
                                    + c.skippedAlready + c.errors
             /\ c.addressIssues <= c.inspected

\* The tag call for the order pass k is at has returned and the order's
\* outcome is not written yet: the pass awaits the tagged write, or the error
\* write that follows a rejected tagged write
TagReturned(k) ==
  \/ pass[k].pc = "markTagged"
  \/ /\ pass[k].pc = "markError"
     /\ pass[k].msg = "sqlite error"
     /\ pass[k].ssOrder # None

\* Table tbl has a row of status tagged for source identifier gid
TaggedRowIn(tbl, gid) ==
  \E i \in RowsIn(tbl, gid) : tbl[i].status = "tagged"

\* C25: the ledger agrees with the tag calls.  Rows of status not_found and
\* error carry no ShipStation order id, a tagged row carries the id of the
\* order's ShipStation order.  A row becomes tagged only by the write of a pass
\* whose tag call for that order has returned, with the id the tag was applied
\* to; when a pass whose tag call has returned is done with the order (a pass
\* ended by a signal set aside), the order's row is tagged with that id; and a
\* tagged row stays tagged.
C25_LedgerMatchesTagCalls ==
  /\ [](\A i \in DOMAIN processed :
          /\ processed[i].status \in {"not_found", "error"}
               => processed[i].shipstation_order_id = None
          /\ processed[i].status = "tagged"
               => processed[i].shipstation_order_id
                    = Some(OrderId(processed[i].shopify_order_gid)))
  /\ [][/\ \A i \in DOMAIN processed' :
             (/\ processed'[i].status = "tagged"
              /\ i \in DOMAIN processed => processed[i] # processed'[i])
               => \E k \in Passes :
                    /\ pass[k].pc = "markTagged"
                    /\ Cur(k).id = processed'[i].shopify_order_gid
                    /\ processed'[i].shipstation_order_id = pass[k].ssOrder
                    /\ pass[k].ssOrder # None
        /\ \A k \in Passes :
             /\ (pass'[k].pc = "markTagged" /\ pass[k].pc # "markTagged")
                  => /\ pass[k].pc = "addTag"
                     /\ pass'[k].ssOrder = pass[k].ssOrder
                     /\ tagCalls' = [tagCalls EXCEPT ![Cur(k).id] = @ + 1]
             /\ (TagReturned(k) /\ ~TagReturned(k)' /\ pass'[k].pc # "killed")
                  => /\ TaggedRowIn(processed', Cur(k).id)
                     /\ \A i \in RowsIn(processed', Cur(k).id) :
                          processed'[i].shipstation_order_id = pass[k].ssOrder
        /\ \A gid \in Orders :
             TaggedRowIn(processed, gid) => TaggedRowIn(processed', gid)]_vars

====
